---- MODULE Spec2Model ----
(***************************************************************************)
(* Model of mozc's base/port.h: the preprocessor conditional that defines  *)
(* port_internal::kTargetPlatform from the build-environment macros, and   *)
(* the constexpr TargetIs*() predicates that read it.                      *)
(*                                                                         *)
(* The conditional of lines 51-73 is kept as data (Directives) and run by  *)
(* a preprocessor state machine (one action per directive kind), so that   *)
(* "exactly one definition or one #error" is a property of the directive   *)
(* text and not of the way the model is written.                           *)
(***************************************************************************)
EXTENDS Naturals, Sequences, FiniteSets

\* port_internal::PlatformType enumerators (port.h:40-48).
kWindows == "kWindows"
kLinux == "kLinux"
kOSX == "kOSX"
kAndroid == "kAndroid"
kIPhone == "kIPhone"
kWASM == "kWASM"
kChromeOS == "kChromeOS"

PlatformType == {kWindows, kLinux, kOSX, kAndroid, kIPhone, kWASM, kChromeOS}

\* The macros the conditional consults.  A macro is in the marker set when
\* `defined(M)` holds (for TARGET_OS_*: when `#if M` is non-zero).
Markers ==
    {"__linux__", "__ANDROID__", "OS_CHROMEOS", "_WIN32",
     "__APPLE__", "TARGET_OS_OSX", "TARGET_OS_IPHONE", "__wasm__"}

\* The value kTargetPlatform has while no definition of it exists.
Undefined == "undefined"

\* The two #error texts.
UnsupportedApple == "Unsupported Apple platform target."
UnsupportedTarget == "Unsupported target platform."

\* One line of port.h lines 51-73.
\*   if/elif : arg is the macro tested
\*   decl    : arg is the enumerator kTargetPlatform is initialised with
\*   error   : arg is the diagnostic
L(n, o, a) == [line |-> n, op |-> o, arg |-> a]

\* LinuxGroup with OS_CHROMEOS tested before __ANDROID__.
LinuxGroup_ChromeOSFirst ==
    << L(52, "if",    "OS_CHROMEOS"),
       L(53, "decl",  kChromeOS),
       L(54, "elif",  "__ANDROID__"),
       L(55, "decl",  kAndroid),
       L(56, "else",  ""),
       L(57, "decl",  kLinux),
       L(58, "endif", "") >>

\* The group of `#if defined(__linux__)`, lines 52-58.
LinuxGroup ==
    << L(52, "if",    "__ANDROID__"),
       L(53, "decl",  kAndroid),
       L(54, "elif",  "OS_CHROMEOS"),
       L(55, "decl",  kChromeOS),
       L(56, "else",  ""),
       L(57, "decl",  kLinux),
       L(58, "endif", "") >>

\* AppleGroup with TARGET_OS_IPHONE tested before TARGET_OS_OSX.
AppleGroup_IPhoneFirst ==
    << L(62, "if",    "TARGET_OS_IPHONE"),
       L(63, "decl",  kIPhone),
       L(64, "elif",  "TARGET_OS_OSX"),
       L(65, "decl",  kOSX),
       L(66, "else",  ""),
       L(67, "error", UnsupportedApple),
       L(68, "endif", "") >>

\* The group of `#elif defined(__APPLE__)`, lines 62-68.
AppleGroup ==
    << L(62, "if",    "TARGET_OS_OSX"),
       L(63, "decl",  kOSX),
       L(64, "elif",  "TARGET_OS_IPHONE"),
       L(65, "decl",  kIPhone),
       L(66, "else",  ""),
       L(67, "error", UnsupportedApple),
       L(68, "endif", "") >>

\* Directives without the `#else` of line 71.
Directives_NoFinalElse ==
    << L(51, "if", "__linux__") >> \o LinuxGroup
    \o << L(59, "elif", "_WIN32"), L(60, "decl", kWindows) >>
    \o << L(61, "elif", "__APPLE__") >> \o AppleGroup
    \o << L(69, "elif", "__wasm__"), L(70, "decl", kWASM) >>
    \o << L(72, "error", UnsupportedTarget) >>
    \o << L(73, "endif", "") >>

\* Directives with __wasm__ tested before __APPLE__.
Directives_WasmBeforeApple ==
    << L(51, "if", "__linux__") >> \o LinuxGroup
    \o << L(59, "elif", "_WIN32"), L(60, "decl", kWindows) >>
    \o << L(69, "elif", "__wasm__"), L(70, "decl", kWASM) >>
    \o << L(61, "elif", "__APPLE__") >> \o AppleGroup
    \o << L(71, "else", ""), L(72, "error", UnsupportedTarget) >>
    \o << L(73, "endif", "") >>

\* Directives with __APPLE__ tested before _WIN32.
Directives_AppleBeforeWindows ==
    << L(51, "if", "__linux__") >> \o LinuxGroup
    \o << L(61, "elif", "__APPLE__") >> \o AppleGroup
    \o << L(59, "elif", "_WIN32"), L(60, "decl", kWindows) >>
    \o << L(69, "elif", "__wasm__"), L(70, "decl", kWASM) >>
    \o << L(71, "else", ""), L(72, "error", UnsupportedTarget) >>
    \o << L(73, "endif", "") >>

\* port.h lines 51-73, in order.
Directives ==
    << L(51, "if", "__linux__") >> \o LinuxGroup
    \o << L(59, "elif", "_WIN32"), L(60, "decl", kWindows) >>
    \o << L(61, "elif", "__APPLE__") >> \o AppleGroup
    \o << L(69, "elif", "__wasm__"), L(70, "decl", kWASM) >>
    \o << L(71, "else", ""), L(72, "error", UnsupportedTarget) >>
    \o << L(73, "endif", "") >>

\* The eight predicate functions of port.h:112-160.
Predicates ==
    {"TargetIsWindows", "TargetIsLinux", "TargetIsAndroid", "TargetIsDarwin",
     "TargetIsOSX", "TargetIsIPhone", "TargetIsWASM", "TargetIsChromeOS"}

VARIABLES
    markers,          \* the macros the toolchain and build system define
    pc,               \* index in Directives of the next line to process
    stack,            \* open #if sections, innermost last
    definitions,      \* initialisers of the kTargetPlatform definitions emitted
    diagnostics,      \* texts of the #error directives executed
    build,            \* "preprocessing", "ok" or "failed"
    kTargetPlatform,  \* the constant the predicates read
    results           \* per predicate, the values its evaluations returned

vars == <<markers, pc, stack, definitions, diagnostics, build,
          kTargetPlatform, results>>

Init ==
    /\ markers \in SUBSET Markers
    /\ pc = 1
    /\ stack = << >>
    /\ definitions = << >>
    /\ diagnostics = << >>
    /\ build = "preprocessing"
    /\ kTargetPlatform = Undefined
    /\ results = [p \in Predicates |-> {}]

----------------------------------------------------------------------------
\* Conditional inclusion

\* defined(m) / the value of `#if m`.
Defined(m) == m \in markers

\* Whether the text at pc is in a group that is being kept.
Active == stack = << >> \/ stack[Len(stack)].active

Cur == Directives[pc]

Preprocessing == build = "preprocessing" /\ pc <= Len(Directives)

ReplaceTop(e) == [stack EXCEPT ![Len(stack)] = e]

\* #if: opens a section; its group is kept when the enclosing text is kept
\* and the condition holds.
PPIf ==
    /\ Preprocessing
    /\ Cur.op = "if"
    /\ LET keep == Active /\ Defined(Cur.arg)
       IN stack' = Append(stack, [outer |-> Active, taken |-> keep,
                                  active |-> keep])
    /\ pc' = pc + 1
    /\ UNCHANGED <<markers, definitions, diagnostics, build,
                   kTargetPlatform, results>>

\* #elif: its condition is evaluated only when the enclosing text is kept and
\* no earlier group of the section was kept.
PPElif ==
    /\ Preprocessing
    /\ Cur.op = "elif"
    /\ stack # << >>
    /\ LET top == stack[Len(stack)]
           keep == top.outer /\ ~top.taken /\ Defined(Cur.arg)
       IN stack' = ReplaceTop([outer |-> top.outer,
                               taken |-> top.taken \/ keep,
                               active |-> keep])
    /\ pc' = pc + 1
    /\ UNCHANGED <<markers, definitions, diagnostics, build,
                   kTargetPlatform, results>>

\* #else: kept when the enclosing text is kept and no group of the section was.
PPElse ==
    /\ Preprocessing
    /\ Cur.op = "else"
    /\ stack # << >>
    /\ LET top == stack[Len(stack)]
           keep == top.outer /\ ~top.taken
       IN stack' = ReplaceTop([outer |-> top.outer, taken |-> TRUE,
                               active |-> keep])
    /\ pc' = pc + 1
    /\ UNCHANGED <<markers, definitions, diagnostics, build,
                   kTargetPlatform, results>>

\* #endif: closes the innermost section.
PPEndif ==
    /\ Preprocessing
    /\ Cur.op = "endif"
    /\ stack # << >>
    /\ stack' = SubSeq(stack, 1, Len(stack) - 1)
    /\ pc' = pc + 1
    /\ UNCHANGED <<markers, definitions, diagnostics, build,
                   kTargetPlatform, results>>

\* `inline constexpr PlatformType kTargetPlatform = ...;` reaches the compiler
\* only from a kept group.
PPDecl ==
    /\ Preprocessing
    /\ Cur.op = "decl"
    /\ definitions' = IF Active THEN Append(definitions, Cur.arg)
                                ELSE definitions
    /\ pc' = pc + 1
    /\ UNCHANGED <<markers, stack, diagnostics, build, kTargetPlatform,
                   results>>

\* #error in a kept group reports its text; in a skipped group it is ignored.
PPError ==
    /\ Preprocessing
    /\ Cur.op = "error"
    /\ diagnostics' = IF Active THEN Append(diagnostics, Cur.arg)
                                ELSE diagnostics
    /\ pc' = pc + 1
    /\ UNCHANGED <<markers, stack, definitions, build, kTargetPlatform,
                   results>>

\* End of the conditional.  The translation unit compiles when no #error was
\* executed and kTargetPlatform has exactly one definition (the predicates
\* name it, so none is an error; two are a redefinition).
Compile ==
    /\ build = "preprocessing"
    /\ pc = Len(Directives) + 1
    /\ IF diagnostics = << >> /\ Len(definitions) = 1
         THEN /\ build' = "ok"
              /\ kTargetPlatform' = definitions[1]
         ELSE /\ build' = "failed"
              /\ kTargetPlatform' = kTargetPlatform
    /\ UNCHANGED <<markers, pc, stack, definitions, diagnostics, results>>

----------------------------------------------------------------------------
\* Predicates (port.h:112-160)

TargetIsWindows == kTargetPlatform = kWindows

\* TargetIsLinux following the kLinux enumerator's "excluding Android".
TargetIsLinux_NoAndroid ==
    \/ kTargetPlatform = kLinux
    \/ kTargetPlatform = kChromeOS

TargetIsLinux ==
    \/ kTargetPlatform = kLinux
    \/ kTargetPlatform = kAndroid
    \/ kTargetPlatform = kChromeOS

TargetIsAndroid == kTargetPlatform = kAndroid

\* TargetIsDarwin without the iPhone family.
TargetIsDarwin_OSXOnly == kTargetPlatform = kOSX

TargetIsDarwin == kTargetPlatform = kOSX \/ kTargetPlatform = kIPhone

TargetIsOSX == kTargetPlatform = kOSX

\* TargetIsIPhone with the body of TargetIsDarwin.
TargetIsIPhone_AsDarwin ==
    kTargetPlatform = kOSX \/ kTargetPlatform = kIPhone

TargetIsIPhone == kTargetPlatform = kIPhone

\* TargetIsWASM comparing with the enumerator of TargetIsWindows.
TargetIsWASM_AsWindows == kTargetPlatform = kWindows

TargetIsWASM == kTargetPlatform = kWASM

TargetIsChromeOS == kTargetPlatform = kChromeOS

\* The value a call of predicate p returns.
Value(p) ==
    CASE p = "TargetIsWindows" -> TargetIsWindows
      [] p = "TargetIsLinux" -> TargetIsLinux
      [] p = "TargetIsAndroid" -> TargetIsAndroid
      [] p = "TargetIsDarwin" -> TargetIsDarwin
      [] p = "TargetIsOSX" -> TargetIsOSX
      [] p = "TargetIsIPhone" -> TargetIsIPhone
      [] p = "TargetIsWASM" -> TargetIsWASM
      [] p = "TargetIsChromeOS" -> TargetIsChromeOS

\* Call where TargetIsWindows assigns kWindows instead of comparing with it
\* (`=` for `==`, on a kTargetPlatform that is not const).
Call_Assigning(p) ==
    /\ build = "ok"
    /\ kTargetPlatform' = IF p = "TargetIsWindows" THEN kWindows
                                                   ELSE kTargetPlatform
    /\ results' = [results EXCEPT ![p] =
                      @ \cup {IF p = "TargetIsWindows" THEN TRUE ELSE Value(p)}]
    /\ UNCHANGED <<markers, pc, stack, definitions, diagnostics, build>>

\* An evaluation of predicate p, as in `if constexpr (TargetIsWindows())`.
\* It exists only in a translation unit that compiled.
Call(p) ==
    /\ build = "ok"
    /\ results' = [results EXCEPT ![p] = @ \cup {Value(p)}]
    /\ UNCHANGED <<markers, pc, stack, definitions, diagnostics, build,
                   kTargetPlatform>>

Next ==
    \/ PPIf
    \/ PPElif
    \/ PPElse
    \/ PPEndif
    \/ PPDecl
    \/ PPError
    \/ Compile
    \/ \E p \in Predicates : Call(p)

Spec == Init /\ [][Next]_vars

----------------------------------------------------------------------------
\* Properties

Has(m) == m \in markers

Done == build # "preprocessing"

\* The outcome of the build: the platform of a build that compiled, the
\* diagnostics of one that did not.
Outcome == IF build = "ok" THEN <<"ok", kTargetPlatform>>
                           ELSE <<"failed", diagnostics>>

\* C1: every marker set has exactly one outcome.  At no point are there two
\* definitions of kTargetPlatform, or a definition together with an #error;
\* at the end there is either one definition, whose PlatformType value is the
\* resolved platform, or one #error and no platform at all.
C1_ExactlyOneOutcome ==
    /\ Len(definitions) + Len(diagnostics) <= 1
    /\ Done =>
         \/ /\ build = "ok"
            /\ Len(definitions) = 1
            /\ diagnostics = << >>
            /\ kTargetPlatform \in PlatformType
         \/ /\ build = "failed"
            /\ definitions = << >>
            /\ Len(diagnostics) = 1
            /\ kTargetPlatform = Undefined

C1_Witness ==
    /\ build = "ok"
    /\ kTargetPlatform = kWASM
    /\ markers = {"__wasm__", "__ANDROID__", "TARGET_OS_OSX"}

\* The membership column of the predicate table.
Membership(p) ==
    CASE p = "TargetIsWindows" -> {kWindows}
      [] p = "TargetIsLinux" -> {kLinux, kAndroid, kChromeOS}
      [] p = "TargetIsAndroid" -> {kAndroid}
      [] p = "TargetIsDarwin" -> {kOSX, kIPhone}
      [] p = "TargetIsOSX" -> {kOSX}
      [] p = "TargetIsIPhone" -> {kIPhone}
      [] p = "TargetIsWASM" -> {kWASM}
      [] p = "TargetIsChromeOS" -> {kChromeOS}

\* C2: for every resolved platform, each of the eight predicates is true
\* exactly when the platform is in its row of the table, and every value an
\* evaluation returned is that one.
C2_PredicateTable ==
    build = "ok" =>
        \A p \in Predicates :
            /\ Value(p) <=> kTargetPlatform \in Membership(p)
            /\ results[p] \subseteq {kTargetPlatform \in Membership(p)}

C2_Witness ==
    /\ build = "ok"
    /\ kTargetPlatform = kAndroid
    /\ \A p \in Predicates : results[p] # {}
    /\ results["TargetIsLinux"] = {TRUE}
    /\ results["TargetIsChromeOS"] = {FALSE}

\* The seven mutually exclusive cases, by name.
SevenCases ==
    [IsWindows |-> TargetIsWindows,
     IsAndroid |-> TargetIsAndroid,
     IsMacOS |-> TargetIsOSX,
     IsIPhoneFamily |-> TargetIsIPhone,
     IsWASM |-> TargetIsWASM,
     IsChromeOS |-> TargetIsChromeOS,
     DesktopLinuxOnly |->
         TargetIsLinux /\ ~TargetIsAndroid /\ ~TargetIsChromeOS]

\* C3: in a build that resolved, exactly one of the seven cases is true, and
\* the two family predicates are true exactly for their declared members.
C3_ExactlyOneCase ==
    build = "ok" =>
        /\ Cardinality({c \in DOMAIN SevenCases : SevenCases[c]}) = 1
        /\ TargetIsLinux <=> kTargetPlatform \in {kLinux, kAndroid, kChromeOS}
        /\ TargetIsDarwin <=> kTargetPlatform \in {kOSX, kIPhone}

C3_Witness ==
    /\ build = "ok"
    /\ kTargetPlatform = kLinux
    /\ SevenCases["DesktopLinuxOnly"]
    /\ results["TargetIsLinux"] = {TRUE}
    /\ results["TargetIsAndroid"] = {FALSE}

\* The two failing shapes of claim C4.
AppleWithoutTarget ==
    /\ ~Has("__linux__") /\ ~Has("_WIN32")
    /\ Has("__APPLE__")
    /\ ~Has("TARGET_OS_OSX") /\ ~Has("TARGET_OS_IPHONE")

NoTopLevelMarker ==
    /\ ~Has("__linux__") /\ ~Has("_WIN32")
    /\ ~Has("__APPLE__") /\ ~Has("__wasm__")

\* C4: the build fails exactly for an Apple build without a sub-target, with
\* "Unsupported Apple platform target.", and for a build with no top-level
\* marker, with "Unsupported target platform."; a failing build defines no
\* platform.
C4_FailureCases ==
    Done =>
        /\ build = "failed" <=> (AppleWithoutTarget \/ NoTopLevelMarker)
        /\ AppleWithoutTarget => diagnostics = <<UnsupportedApple>>
        /\ NoTopLevelMarker => diagnostics = <<UnsupportedTarget>>
        /\ build = "failed" =>
             kTargetPlatform = Undefined /\ definitions = << >>

C4_Witness ==
    /\ build = "failed"
    /\ markers = {"__APPLE__", "__wasm__", "__ANDROID__"}
    /\ diagnostics = <<UnsupportedApple>>

\* C5: Android and ChromeOS imply Linux-family; macOS and iPhone-family imply
\* Darwin-family.
C5_MemberImpliesFamily ==
    build = "ok" =>
        /\ TargetIsAndroid => TargetIsLinux
        /\ TargetIsChromeOS => TargetIsLinux
        /\ TargetIsOSX => TargetIsDarwin
        /\ TargetIsIPhone => TargetIsDarwin

C5_Witness ==
    /\ build = "ok"
    /\ kTargetPlatform = kIPhone
    /\ results["TargetIsIPhone"] = {TRUE}
    /\ results["TargetIsDarwin"] = {TRUE}

\* The pairs of predicates that may hold together.
SanctionedPairs ==
    {{"TargetIsLinux", "TargetIsAndroid"},
     {"TargetIsLinux", "TargetIsChromeOS"},
     {"TargetIsDarwin", "TargetIsOSX"},
     {"TargetIsDarwin", "TargetIsIPhone"}}

\* C6: Linux-family and Darwin-family are never both true, and two distinct
\* predicates are both true only when they are a family and one of its members.
C6_OnlySanctionedOverlaps ==
    build = "ok" =>
        /\ ~(TargetIsLinux /\ TargetIsDarwin)
        /\ \A p, q \in Predicates :
              (p # q /\ Value(p) /\ Value(q)) => {p, q} \in SanctionedPairs

C6_Witness ==
    /\ build = "ok"
    /\ kTargetPlatform = kChromeOS
    /\ results["TargetIsChromeOS"] = {TRUE}
    /\ results["TargetIsLinux"] = {TRUE}
    /\ results["TargetIsAndroid"] = {FALSE}
    /\ results["TargetIsDarwin"] = {FALSE}

\* C7: once the build resolved, the platform is the one the conditional
\* defined and no step changes it, and the evaluations of one predicate all
\* returned the same value.
C7_ResolvedOnce ==
    /\ [](build = "ok" =>
            /\ kTargetPlatform = definitions[1]
            /\ \A p \in Predicates : Cardinality(results[p]) <= 1)
    /\ [][build = "ok" =>
            /\ build' = "ok"
            /\ kTargetPlatform' = kTargetPlatform
            /\ definitions' = definitions]_vars

C7_Witness ==
    /\ build = "ok"
    /\ kTargetPlatform = kOSX
    /\ \A p \in Predicates : Cardinality(results[p]) = 1

\* What the __linux__ branch yields.
LinuxResult ==
    IF Has("__ANDROID__") THEN kAndroid
    ELSE IF Has("OS_CHROMEOS") THEN kChromeOS
    ELSE kLinux

\* C8: with __linux__ the build never fails and the platform is Android,
\* else ChromeOS, else Linux, whatever the other markers.
C8_LinuxBranch ==
    (Done /\ Has("__linux__")) => Outcome = <<"ok", LinuxResult>>

C8_Witness ==
    /\ build = "ok"
    /\ markers = Markers
    /\ kTargetPlatform = kAndroid

\* What the conditional yields without __linux__, written without the Android
\* and ChromeOS markers.
NonLinuxOutcome ==
    IF Has("_WIN32") THEN <<"ok", kWindows>>
    ELSE IF Has("__APPLE__") THEN
        IF Has("TARGET_OS_OSX") THEN <<"ok", kOSX>>
        ELSE IF Has("TARGET_OS_IPHONE") THEN <<"ok", kIPhone>>
        ELSE <<"failed", <<UnsupportedApple>> >>
    ELSE IF Has("__wasm__") THEN <<"ok", kWASM>>
    ELSE <<"failed", <<UnsupportedTarget>> >>

\* C9: the top-level markers are tried in the order __linux__, _WIN32,
\* __APPLE__, __wasm__: Windows exactly for _WIN32 without __linux__, WASM
\* exactly for __wasm__ without the other three, and without __linux__ the
\* Android and ChromeOS markers do not matter.
C9_TopLevelOrder ==
    Done =>
        /\ Outcome = <<"ok", kWindows>>
              <=> (Has("_WIN32") /\ ~Has("__linux__"))
        /\ Outcome = <<"ok", kWASM>>
              <=> (Has("__wasm__") /\ ~Has("__linux__") /\ ~Has("_WIN32")
                     /\ ~Has("__APPLE__"))
        /\ Has("__linux__") => Outcome[2] \in {kLinux, kAndroid, kChromeOS}
        /\ ~Has("__linux__") => Outcome = NonLinuxOutcome

C9_Witness ==
    /\ build = "ok"
    /\ markers = Markers \ {"__linux__"}
    /\ kTargetPlatform = kWindows

\* The __APPLE__ branch is the one selected.
AppleSelected == Has("__APPLE__") /\ ~Has("__linux__") /\ ~Has("_WIN32")

\* What the conditional yields outside the __APPLE__ branch, written without
\* the TARGET_OS_* markers.
NonAppleOutcome ==
    IF Has("__linux__") THEN <<"ok", LinuxResult>>
    ELSE IF Has("_WIN32") THEN <<"ok", kWindows>>
    ELSE IF Has("__wasm__") THEN <<"ok", kWASM>>
    ELSE <<"failed", <<UnsupportedTarget>> >>

\* C10: in the __APPLE__ branch the platform is OSX if TARGET_OS_OSX, else
\* iPhone if TARGET_OS_IPHONE, else the build fails whatever __wasm__ is;
\* outside that branch the TARGET_OS_* markers do not matter.
C10_AppleBranch ==
    Done =>
        /\ AppleSelected =>
             Outcome = IF Has("TARGET_OS_OSX") THEN <<"ok", kOSX>>
                       ELSE IF Has("TARGET_OS_IPHONE") THEN <<"ok", kIPhone>>
                       ELSE <<"failed", <<UnsupportedApple>> >>
        /\ ~AppleSelected => Outcome = NonAppleOutcome

C10_Witness ==
    /\ build = "ok"
    /\ markers = {"__APPLE__", "TARGET_OS_OSX", "TARGET_OS_IPHONE", "__wasm__"}
    /\ kTargetPlatform = kOSX

====
